---- MODULE Spec2Model ----
\* Model of the VnExpress crawler: main.py (the run loop) and src/crawler.py
\* (BaseCrawler.get_page, NewsCrawler and its JSON store).
\*
\* Text is a sequence of one-character strings.  A URL is a text.  The store
\* file is a sequence of JSON tokens, each token a text whose first element
\* is its kind: "[", "]", "{", "}", "k" (object key), "s" (string value),
\* "n" (number value, decimal digits).
EXTENDS Integers, Sequences, FiniteSets, TLC

\* ---------------------------------------------------------------- bounds
MaxLinks == 2       \* longest listing page (number of article entries)
MaxStored == 6      \* largest store file present before the first run
MaxRuns == 2        \* consecutive runs of main()

\* ------------------------------------------------------ program constants
max_retries == 3
retry_delay == 5
LoadLimit == 5
RecencyDays == 7
DaySeconds == 86400

None == [none |-> TRUE]

SP == " "
LF == "\n"

\* ------------------------------------------------------------ text helpers
RECURSIVE lstrip(_)
lstrip(t) == IF t # <<>> /\ Head(t) \in {SP, LF} THEN lstrip(Tail(t)) ELSE t

RECURSIVE rstrip(_)
rstrip(t) ==
    IF t # <<>> /\ t[Len(t)] \in {SP, LF} THEN rstrip(SubSeq(t, 1, Len(t) - 1)) ELSE t

\* str.strip()
strip(t) == rstrip(lstrip(t))

\* sep.join(parts)
RECURSIVE join(_, _)
join(sep, parts) ==
    IF parts = <<>> THEN <<>>
    ELSE IF Len(parts) = 1 THEN parts[1]
    ELSE parts[1] \o sep \o join(sep, Tail(parts))

Range(s) == {s[i] : i \in 1..Len(s)}

\* ------------------------------------------------------------ the calendar
IsLeap(y) == (y % 4 = 0 /\ y % 100 # 0) \/ y % 400 = 0

DaysInMonth(y, m) ==
    IF m = 2 THEN (IF IsLeap(y) THEN 29 ELSE 28)
    ELSE IF m \in {4, 6, 9, 11} THEN 30 ELSE 31

\* days since 1970-01-01 of a Gregorian date
DaysFromCivil(y, m, d) ==
    LET yy  == IF m <= 2 THEN y - 1 ELSE y
        era == yy \div 400
        yoe == yy - era * 400
        mp  == IF m > 2 THEN m - 3 ELSE m + 9
        doy == (153 * mp + 2) \div 5 + d - 1
        doe == yoe * 365 + yoe \div 4 - yoe \div 100 + doy
    IN  era * 146097 + doe - 719468

\* datetime.strptime(s, '%d/%m/%Y %H:%M') followed by int(dt.timestamp()),
\* local time taken as UTC; None when strptime raises.
\* date_part is <<d, m, y>>, time_part is <<H, M>> when well formed.
strptime_timestamp(date_part, time_part) ==
    IF /\ Len(date_part) = 3
       /\ Len(time_part) = 2
       /\ date_part[2] \in 1..12
       /\ date_part[3] \in 1..9999
       /\ date_part[1] \in 1..DaysInMonth(date_part[3], date_part[2])
       /\ time_part[1] \in 0..23
       /\ time_part[2] \in 0..59
    THEN DaysFromCivil(date_part[3], date_part[2], date_part[1]) * DaySeconds
             + time_part[1] * 3600 + time_part[2] * 60
    ELSE 0

\* A date string is modelled by its comma-separated segments, each segment
\* the sequence of numbers read from it ("Thu" gives <<>>).  0 stands for
\* the None result (the caller tests "not publish_timestamp").
convert_date_to_timestamp(date_str) ==
    IF Len(date_str) >= 3
    THEN strptime_timestamp(date_str[2], date_str[3])
    ELSE 0

\* int(datetime.now().timestamp()) when the script is started
Now == DaysFromCivil(2025, 2, 21) * DaySeconds + 10 * 3600

\* whole seconds the clock may advance between the two datetime.now() of
\* one is_within_days call
Ticks == {0, 1}

\* is_within_days with an exclusive upper bound
is_within_days_before_now(publish_timestamp, days, now1, now2) ==
    LET now      == now1
        days_ago == now2 - days * DaySeconds
    IN  days_ago <= publish_timestamp /\ publish_timestamp < now

\* NewsCrawler.is_within_days: now1 and now2 are the two readings of
\* datetime.now(), in whole seconds, in the order the code takes them.
is_within_days(publish_timestamp, days, now1, now2) ==
    LET now      == now1
        days_ago == now2 - days * DaySeconds
    IN  days_ago <= publish_timestamp /\ publish_timestamp <= now

\* ------------------------------------------------------------------- pages
\* An article page: the nodes the selectors of parse_article find.
NoNode == [present |-> FALSE, text |-> <<>>]
Node(t) == [present |-> TRUE, text |-> t]
Para(t) == [text |-> t, embed |-> FALSE]
EmbedPara(t) == [text |-> t, embed |-> TRUE]
NoContent == [present |-> FALSE, paragraphs |-> <<>>]
Content(ps) == [present |-> TRUE, paragraphs |-> ps]
NoDate == [present |-> FALSE, text |-> <<>>]
DateNode(d) == [present |-> TRUE, text |-> d]

Date3DaysAgo == << <<>>, <<18, 2, 2025>>, <<9, 56>> >>
Date10DaysAgo == << <<>>, <<11, 2, 2025>>, <<9, 56>> >>
DateTomorrow == << <<>>, <<22, 2, 2025>>, <<9, 56>> >>
DateInvalid == << <<>> >>

u1 == <<"u", "1">>
u2 == <<"u", "2">>
u3 == <<"u", "3">>
u4 == <<"u", "4">>
u5 == <<"u", "5">>
u6 == <<"u", "6">>
u7 == <<"u", "7">>
u8 == <<"u", "8">>
ArticleUrls == {u1, u2, u3, u4, u5, u6, u7, u8}

GoodPage(t) ==
    [title |-> Node(<<SP, t, SP>>),
     content |-> Content(<<Para(<<"p", SP>>), Para(<<SP>>), Para(<<"q">>)>>),
     date |-> DateNode(Date3DaysAgo),
     description |-> Node(<<"d", SP>>)]

\* The article pages of the site.
Web(url) ==
    CASE url = u2 -> [GoodPage("B") EXCEPT !.date = DateNode(Date10DaysAgo)]
      [] url = u3 -> [GoodPage("C") EXCEPT !.title = Node(<<SP>>)]
      [] url = u4 -> [GoodPage("D") EXCEPT !.content = NoContent]
      [] url = u5 -> [GoodPage("E") EXCEPT !.date = DateNode(DateInvalid)]
      [] url = u6 -> [GoodPage("F") EXCEPT
                         !.content = Content(<<EmbedPara(<<"v">>), Para(<<"p">>)>>),
                         !.description = NoNode]
      [] url = u8 -> [GoodPage("H") EXCEPT !.date = DateNode(DateTomorrow)]
      [] OTHER -> GoodPage("A")

\* bool(tag) of a BeautifulSoup node: a Tag is always true, None is false.
TagTruth(node) == node.present

\* content.select('.box_embed_video, .box_ins_readmore') ... decompose(), then
\* [p.text.strip() for p in paragraphs if p.text.strip()]
RECURSIVE ParagraphTexts(_)
ParagraphTexts(ps) ==
    IF ps = <<>> THEN <<>>
    ELSE (IF ~Head(ps).embed /\ strip(Head(ps).text) # <<>>
          THEN <<strip(Head(ps).text)>> ELSE <<>>)
         \o ParagraphTexts(Tail(ps))

ContentText(html) ==
    IF html.content.present
    THEN LET body == join(<<LF>>, ParagraphTexts(html.content.paragraphs))
         IN  IF html.description.present
             THEN strip(html.description.text) \o <<LF, LF>> \o body
             ELSE body
    ELSE <<>>

parse_article(html, url) ==
    LET title        == html.title
        content_text == ContentText(html)
        publish_date == html.date
    IN  IF ~TagTruth(title) \/ content_text = <<>> \/ ~TagTruth(publish_date)
        THEN None
        ELSE LET publish_timestamp == convert_date_to_timestamp(publish_date.text)
             IN  IF publish_timestamp = 0
                 THEN None
                 ELSE [title |-> strip(title.text),
                       content |-> content_text,
                       publish_date |-> publish_timestamp,
                       crawled_at |-> Now,
                       url |-> url]

\* ---------------------------------------------------------- the JSON store
DigitChars == <<"0", "1", "2", "3", "4", "5", "6", "7", "8", "9">>

RECURSIVE IntToDigits(_)
IntToDigits(n) ==
    IF n < 10 THEN <<DigitChars[n + 1]>>
    ELSE IntToDigits(n \div 10) \o <<DigitChars[(n % 10) + 1]>>

DigitValue(c) == CHOOSE d \in 0..9 : DigitChars[d + 1] = c

\* the number written by the first n digits of ds
RECURSIVE DigitsValue(_, _)
DigitsValue(ds, n) ==
    IF n = 0 THEN 0 ELSE DigitsValue(ds, n - 1) * 10 + DigitValue(ds[n])

DigitsToInt(ds) == DigitsValue(ds, Len(ds))

KeyOrder == <<"url", "title", "content", "publish_date">>

DumpValue(key, v) ==
    IF key = "publish_date" THEN <<"n">> \o IntToDigits(v) ELSE <<"s">> \o v

DumpRecord(r) ==
    <<<<"{">>>>
    \o [i \in 1..(2 * Len(KeyOrder)) |->
           IF i % 2 = 1 THEN <<"k", KeyOrder[(i + 1) \div 2]>>
           ELSE DumpValue(KeyOrder[i \div 2], r[KeyOrder[i \div 2]])]
    \o <<<<"}">>>>

RECURSIVE DumpRecords(_)
DumpRecords(rs) ==
    IF rs = <<>> THEN <<>> ELSE DumpRecord(Head(rs)) \o DumpRecords(Tail(rs))

\* json.dump(articles, f): the token text of a list of records
json_dump(rs) == <<<<"[">>>> \o DumpRecords(rs) \o <<<<"]">>>>

ParseFail == [ok |-> FALSE, next |-> 0, val |-> <<>>]

\* the element of a one-element set
Only(S) == CHOOSE x \in S : TRUE

LoadValue(tok) ==
    IF tok[1] = "n" THEN DigitsToInt(Tail(tok)) ELSE Tail(tok)

\* the key/value pairs of an object, from token i up to its "}"
RECURSIVE ParsePairs(_, _, _)
ParsePairs(toks, i, acc) ==
    IF i > Len(toks) THEN ParseFail
    ELSE IF toks[i] = <<"}">> THEN [ok |-> TRUE, next |-> i + 1, val |-> acc]
    ELSE IF /\ toks[i][1] = "k"
            /\ i + 1 <= Len(toks)
            /\ toks[i + 1][1] \in {"s", "n"}
         THEN ParsePairs(toks, i + 2, (toks[i][2] :> LoadValue(toks[i + 1])) @@ acc)
         ELSE ParseFail

\* the objects of an array, from token i up to its "]"
RECURSIVE ParseItems(_, _, _)
ParseItems(toks, i, acc) ==
    IF i > Len(toks) THEN ParseFail
    ELSE IF toks[i] = <<"]">>
         THEN (IF i = Len(toks) THEN [ok |-> TRUE, next |-> i + 1, val |-> acc]
               ELSE ParseFail)
    ELSE IF toks[i] = <<"{">>
         THEN Only({IF obj.ok THEN ParseItems(toks, obj.next, Append(acc, obj.val))
                    ELSE ParseFail :
                        obj \in {ParsePairs(toks, i + 1, <<>>)}})
         ELSE ParseFail

\* json.load(f): the list of records of a token text, or a failure
json_load(toks) ==
    IF toks # <<>> /\ toks[1] = <<"[">> THEN ParseItems(toks, 2, <<>>) ELSE ParseFail

\* ------------------------------------------------------------ the crawler
Take(s, n) == SubSeq(s, 1, IF Len(s) < n THEN Len(s) ELSE n)

Urls(rs) == {rs[i]["url"] : i \in 1..Len(rs)}

\* load_articles as it would be if the seen set were filled from the
\* returned (cut) list
load_articles_seen_from_returned(exists, toks) ==
    LET parsed == IF exists THEN json_load(toks) ELSE ParseFail
    IN  IF parsed.ok
        THEN [articles |-> SubSeq(parsed.val, 1, IF Len(parsed.val) < LoadLimit
                                                 THEN Len(parsed.val) ELSE LoadLimit),
              urls |-> {parsed.val[i]["url"] :
                           i \in 1..(IF Len(parsed.val) < LoadLimit
                                     THEN Len(parsed.val) ELSE LoadLimit)}]
        ELSE [articles |-> <<>>, urls |-> {}]

\* NewsCrawler.load_articles: the returned list and the URLs added to
\* crawled_urls.  A missing file and a file json.load rejects give the
\* empty list and add nothing.
load_articles(exists, toks) ==
    Only({IF parsed.ok
          THEN [articles |-> Take(parsed.val, LoadLimit), urls |-> Urls(parsed.val)]
          ELSE [articles |-> <<>>, urls |-> {}] :
              parsed \in {IF exists THEN json_load(toks) ELSE ParseFail}})

\* is_crawled as it would be if it never recognised a URL
is_crawled_never(url, crawled) == FALSE

is_crawled(url, crawled) == url \in crawled

\* HTTP outcomes of one session.get: a status code, 0 for a network failure
Responses == {200, 429, 500, 0}
NoStatus == -1

\* the retry test as it would be if every failed request were sent again
ShouldRetry_any_failure(status, retries) == status # 200 /\ retries < max_retries

\* the retry test with an inclusive comparison
ShouldRetry_inclusive(status, retries) == status = 429 /\ retries <= max_retries

\* get_page: the test that sends the request again
ShouldRetry(status, retries) == status = 429 /\ retries < max_retries

wait_time(retries) == retry_delay * (retries + 1)

\* crawl_article as it would be if it assigned the seen set instead of
\* adding to it
crawl_article_resets_seen(url, fetched, crawled) ==
    LET article_data == IF fetched = "text" THEN parse_article(Web(url), url) ELSE None
    IN  IF article_data # None
        THEN [article |-> article_data, crawled |-> {url}]
        ELSE [article |-> None, crawled |-> crawled]

\* crawl_article as it would be without crawled_urls.add(url)
crawl_article_no_mark(url, fetched, crawled) ==
    [article |-> IF fetched = "text" THEN parse_article(Web(url), url) ELSE None,
     crawled |-> crawled]

\* NewsCrawler.crawl_article after get_page has returned: the parsed article
\* (None on a failed fetch or parse) and the seen set afterwards.
crawl_article(url, fetched, crawled) ==
    LET article_data == IF fetched = "text" THEN parse_article(Web(url), url) ELSE None
    IN  IF article_data # None
        THEN [article |-> article_data, crawled |-> crawled \cup {url}]
        ELSE [article |-> None, crawled |-> crawled]

\* main: how the result of crawl_article is classified, is_within_days
\* reading the clock as now1 and then now2
Classify(article, now1, now2) ==
    IF article # None /\ article.content # <<>> /\ article.publish_date # 0
    THEN (IF is_within_days(article.publish_date, RecencyDays, now1, now2)
          THEN "new" ELSE "stale")
    ELSE "failed"

filtered_article(article) ==
    [url |-> article.url, title |-> article.title,
     content |-> article.content, publish_date |-> article.publish_date]

\* the test before the save as it would be if every run saved
ShouldSave_always(new) == TRUE

\* main: "if new_articles:"
ShouldSave(new) == new # <<>>

\* a failure that abandons the rest of the listing
AfterFailure_abort(i, n) == n + 1

\* main: the index of the link handled after a failed one
AfterFailure(i, n) == i + 1

\* A listing page: its article.item-news entries, each with or without a
\* title link; OffSite is a link to another host.
OffSite == <<"x">>
ListedUrls == {u2, u3, u4, u6}
Entries ==
    {[link |-> TRUE, href |-> u] : u \in ListedUrls \cup {OffSite}}
        \cup {[link |-> FALSE, href |-> <<>>]}

RECURSIVE SeqsUpTo(_, _)
SeqsUpTo(S, n) ==
    IF n = 0 THEN {<<>>}
    ELSE LET shorter == SeqsUpTo(S, n - 1)
         IN  shorter \cup {Append(s, e) : s \in {t \in shorter : Len(t) = n - 1}, e \in S}

\* 'vnexpress.net' in url
OnSite(url) == url \in ArticleUrls

\* NewsCrawler.get_article_list after get_page has returned
RECURSIVE ExtractLinks(_)
ExtractLinks(entries) ==
    IF entries = <<>> THEN <<>>
    ELSE (IF Head(entries).link /\ OnSite(Head(entries).href)
          THEN <<Head(entries).href>> ELSE <<>>)
         \o ExtractLinks(Tail(entries))

get_article_list(fetched, page) ==
    IF fetched = "text" THEN ExtractLinks(page) ELSE <<>>

category_urls == <<<<"c", "1">>>>

\* the records a store file holds before the first run
StoredUrls == <<u1, u5, u2, u4, u8, u6, u3, u7>>
StoredRecord(u) ==
    [url |-> u, title |-> <<"o">>, content |-> <<"c">>,
     publish_date |-> Now - DaySeconds]
StoredRecords(n) == [i \in 1..n |-> StoredRecord(StoredUrls[i])]
InitialStores ==
    {json_dump(StoredRecords(n)) : n \in {0, MaxStored - 1, MaxStored}}
        \cup {json_dump(<<StoredRecord(u1), StoredRecord(u1)>>)}

\* where a write that fails part-way may stop, in tokens written
Cuts(n) == {0, n \div 2}

Outcomes == {"new", "stale", "failed"}

VARIABLES
    file_exists,    \* os.path.exists(data_file)
    file,           \* content of data_file, as JSON tokens
    listing_page,   \* the category page of the site
    clock,          \* int(datetime.now().timestamp()) during the run
    pc,             \* position in main()
    run,            \* number of the current run
    crawled_urls,   \* NewsCrawler.crawled_urls
    articles,       \* NewsCrawler.articles
    new_articles,   \* main: new_articles
    failed_urls,    \* main: failed_urls
    cat_idx,        \* main: index into category_urls
    article_urls,   \* main: article_urls of the current category
    link_idx,       \* main: index into article_urls
    retry_count,    \* get_page: retry_count of the current call
    reqs,           \* get_page: requests sent by the current call
    last_status,    \* get_page: status of the last response, NoStatus before it
    waits,          \* get_page: the back-off sleeps of the current call
    result,         \* get_page: "pending", "text" or "None"
    jittered,       \* get_page: the jitter sleep came just before the last request
    paused,         \* main: what followed the last article attempt of this run,
                    \*       "slept" or "skipped"; "none" before the first attempt
    file0,          \* history: the file content when the run loaded it
    outcomes,       \* history: per URL, the outcomes of its attempts in this run
    listed,         \* history: the result of the listing fetch of this run
    save_status,    \* history: what the save of this run did
    prev,           \* history: outcomes, listed, save_status of the run before
    last_saved,     \* history: the list handed to the last successful dump,
                    \*          kept until the next load
    loads,          \* history: calls of load_articles in this run
    writes,         \* history: open(data_file, 'w') calls in this run
    report          \* the counts main prints at the end of the run

vars == <<file_exists, file, listing_page, clock, pc, run, crawled_urls, articles,
          new_articles, failed_urls, cat_idx, article_urls, link_idx,
          retry_count, reqs, last_status, waits, result, jittered, paused, file0,
          outcomes, listed,
          save_status, prev, last_saved, loads, writes, report>>

crawlerVars == <<crawled_urls, articles>>
mainVars == <<new_articles, failed_urls, cat_idx, article_urls, link_idx, paused>>
fetchVars == <<retry_count, reqs, last_status, waits, result, jittered>>
storeVars == <<file_exists, file>>
ioVars == <<loads, writes, report>>
histVars == <<file0, outcomes, listed, save_status, prev, last_saved, ioVars>>

NoFile0 == [exists |-> FALSE, toks |-> <<>>]
NoOutcomes == [u \in ArticleUrls |-> {}]
NoRun == [outcomes |-> NoOutcomes, listed |-> "none", save_status |-> "none"]
NotSaved == [valid |-> FALSE, records |-> <<>>]
NoReport == [printed |-> FALSE, existing |-> 0, new |-> 0, total |-> 0, failed |-> 0]

Init ==
    /\ \/ file_exists = FALSE /\ file = <<>>
       \/ file_exists = TRUE /\ file \in InitialStores
    /\ listing_page \in SeqsUpTo(Entries, MaxLinks)
    /\ clock = Now
    /\ pc = "init"
    /\ run = 1
    /\ crawled_urls = {}
    /\ articles = <<>>
    /\ new_articles = <<>>
    /\ failed_urls = <<>>
    /\ cat_idx = 1
    /\ article_urls = <<>>
    /\ link_idx = 1
    /\ retry_count = 0
    /\ reqs = 0
    /\ last_status = NoStatus
    /\ waits = <<>>
    /\ result = "pending"
    /\ jittered = FALSE
    /\ paused = "none"
    /\ file0 = NoFile0
    /\ outcomes = NoOutcomes
    /\ listed = "none"
    /\ save_status = "none"
    /\ prev = NoRun
    /\ last_saved = NotSaved
    /\ loads = 0
    /\ writes = 0
    /\ report = NoReport

\* main: crawler = NewsCrawler(), new_articles = [], failed_urls = []
Construct ==
    /\ pc = "init"
    /\ \E loaded \in {load_articles(file_exists, file)} :
           /\ articles' = loaded.articles
           /\ crawled_urls' = loaded.urls
    /\ new_articles' = <<>>
    /\ failed_urls' = <<>>
    /\ cat_idx' = 1
    /\ article_urls' = <<>>
    /\ link_idx' = 1
    /\ paused' = "none"
    /\ file0' = [exists |-> file_exists, toks |-> file]
    /\ last_saved' = NotSaved
    /\ pc' = "for_category"
    /\ loads' = loads + 1
    /\ UNCHANGED <<storeVars, listing_page, clock, run, fetchVars, outcomes, listed,
                   save_status, prev, writes, report>>

\* main: get_article_list(category_url) enters get_page
BeginCategory ==
    /\ pc = "for_category"
    /\ cat_idx <= Len(category_urls)
    /\ retry_count' = 0
    /\ reqs' = 0
    /\ last_status' = NoStatus
    /\ waits' = <<>>
    /\ result' = "pending"
    /\ jittered' = FALSE
    /\ pc' = "get_list"
    /\ UNCHANGED <<storeVars, listing_page, clock, run, crawlerVars, mainVars, histVars>>

\* get_page: the jitter sleep, one request and the handling of its response.
\* reqs, retry_count and waits are locals of the call in progress: a step
\* that returns discards them, leaving the result and the last status; a
\* return of None leaves retry_count as the call that gave up had it.
GetPageStep(status) ==
    /\ pc \in {"get_list", "get_article"}
    /\ result = "pending"
    /\ jittered' = TRUE
    /\ last_status' = status
    /\ IF status = 200
       THEN /\ result' = "text"
            /\ reqs' = 0
            /\ retry_count' = 0
            /\ waits' = <<>>
       ELSE IF ShouldRetry(status, retry_count)
       THEN /\ waits' = Append(waits, wait_time(retry_count))
            /\ reqs' = reqs + 1
            /\ retry_count' = retry_count + 1
            /\ result' = "pending"
       ELSE /\ result' = "None"
            /\ reqs' = 0
            /\ retry_count' = retry_count
            /\ waits' = <<>>
    /\ UNCHANGED <<storeVars, listing_page, clock, pc, run, crawlerVars, mainVars, histVars>>

\* get_article_list: the links of the fetched listing
FinishList ==
    /\ pc = "get_list"
    /\ result # "pending"
    /\ article_urls' = get_article_list(result, listing_page)
    /\ link_idx' = 1
    /\ listed' = result
    /\ retry_count' = 0
    /\ reqs' = 0
    /\ last_status' = NoStatus
    /\ waits' = <<>>
    /\ result' = "pending"
    /\ jittered' = FALSE
    /\ pc' = "for_url"
    /\ UNCHANGED <<storeVars, listing_page, clock, run, crawlerVars, new_articles,
                   failed_urls, cat_idx, paused, file0, outcomes, save_status, prev,
                   last_saved, ioVars>>

\* main: "Already crawled", continue
SkipCrawled ==
    /\ pc = "for_url"
    /\ link_idx <= Len(article_urls)
    /\ is_crawled(article_urls[link_idx], crawled_urls)
    /\ link_idx' = link_idx + 1
    /\ UNCHANGED <<storeVars, listing_page, clock, pc, run, crawlerVars, new_articles,
                   failed_urls, cat_idx, article_urls, paused, fetchVars, histVars>>

\* main: crawl_article(url) enters get_page
BeginArticle ==
    /\ pc = "for_url"
    /\ link_idx <= Len(article_urls)
    /\ ~is_crawled(article_urls[link_idx], crawled_urls)
    /\ retry_count' = 0
    /\ reqs' = 0
    /\ last_status' = NoStatus
    /\ waits' = <<>>
    /\ result' = "pending"
    /\ jittered' = FALSE
    /\ pc' = "get_article"
    /\ UNCHANGED <<storeVars, listing_page, clock, run, crawlerVars, mainVars, histVars>>

\* crawl_article from the return of get_page, then the body of main's loop
\* down to time.sleep(random.uniform(3, 6))
FinishArticle ==
    /\ pc = "get_article"
    /\ result # "pending"
    /\ \E tick \in Ticks, crawl \in {crawl_article(article_urls[link_idx], result, crawled_urls)} :
       LET url     == article_urls[link_idx]
           article == crawl.article
           outcome == Classify(article, clock, clock + tick)
       IN  /\ outcomes' = [outcomes EXCEPT ![url] = @ \cup {outcome}]
           /\ IF outcome = "new"
              THEN /\ new_articles' = Append(new_articles, filtered_article(article))
                   /\ crawled_urls' = crawl.crawled \cup {url}
                   /\ failed_urls' = failed_urls
                   /\ link_idx' = link_idx + 1
              ELSE IF outcome = "stale"
              THEN /\ crawled_urls' = crawl.crawled
                   /\ link_idx' = link_idx + 1
                   /\ UNCHANGED <<new_articles, failed_urls>>
              ELSE /\ failed_urls' = Append(failed_urls, url)
                   /\ crawled_urls' = crawl.crawled
                   /\ link_idx' = AfterFailure(link_idx, Len(article_urls))
                   /\ new_articles' = new_articles
    /\ paused' = "slept"
    /\ retry_count' = 0
    /\ reqs' = 0
    /\ last_status' = NoStatus
    /\ waits' = <<>>
    /\ result' = "pending"
    /\ jittered' = FALSE
    /\ pc' = "for_url"
    /\ UNCHANGED <<storeVars, listing_page, clock, run, articles, cat_idx, article_urls,
                   file0, listed, save_status, prev, last_saved, ioVars>>

\* main: an exception leaves crawl_article once its get_page has returned;
\* "except Exception": failed_urls.append(url), continue
ArticleRaises ==
    /\ pc = "get_article"
    /\ result # "pending"
    /\ outcomes' = [outcomes EXCEPT ![article_urls[link_idx]] = @ \cup {"failed"}]
    /\ failed_urls' = Append(failed_urls, article_urls[link_idx])
    /\ link_idx' = AfterFailure(link_idx, Len(article_urls))
    /\ paused' = "skipped"
    /\ retry_count' = 0
    /\ reqs' = 0
    /\ last_status' = NoStatus
    /\ waits' = <<>>
    /\ result' = "pending"
    /\ jittered' = FALSE
    /\ pc' = "for_url"
    /\ UNCHANGED <<storeVars, listing_page, clock, run, crawlerVars, new_articles,
                   cat_idx, article_urls, file0, listed, save_status, prev,
                   last_saved, ioVars>>

\* main: the links of the category are exhausted
EndLinks ==
    /\ pc = "for_url"
    /\ link_idx > Len(article_urls)
    /\ cat_idx' = cat_idx + 1
    /\ pc' = "for_category"
    /\ UNCHANGED <<storeVars, listing_page, clock, run, crawlerVars, new_articles,
                   failed_urls, article_urls, link_idx, paused, fetchVars, histVars>>

\* main: the categories are exhausted
EndCategories ==
    /\ pc = "for_category"
    /\ cat_idx > Len(category_urls)
    /\ pc' = "save"
    /\ UNCHANGED <<storeVars, listing_page, clock, run, crawlerVars, mainVars, fetchVars,
                   histVars>>

\* main: "if new_articles" is false
NoSave ==
    /\ pc = "save"
    /\ ~ShouldSave(new_articles)
    /\ save_status' = "skipped"
    /\ pc' = "summary"
    /\ UNCHANGED <<storeVars, listing_page, clock, run, crawlerVars, mainVars, fetchVars,
                   file0, outcomes, listed, prev, last_saved, ioVars>>

\* save_articles_to_json: extend, open, dump, all succeeding
SaveOk ==
    /\ pc = "save"
    /\ ShouldSave(new_articles)
    /\ writes' = writes + 1
    /\ articles' = articles \o new_articles
    /\ file' = json_dump(articles')
    /\ file_exists' = TRUE
    /\ last_saved' = [valid |-> TRUE, records |-> articles']
    /\ save_status' = "ok"
    /\ pc' = "summary"
    /\ UNCHANGED <<listing_page, clock, run, crawled_urls, mainVars, fetchVars, file0,
                   outcomes, listed, prev, loads, report>>

\* save_articles_to_json: open(data_file, 'w') raises
SaveOpenFails ==
    /\ pc = "save"
    /\ ShouldSave(new_articles)
    /\ writes' = writes + 1
    /\ articles' = articles \o new_articles
    /\ save_status' = "open_failed"
    /\ pc' = "summary"
    /\ UNCHANGED <<storeVars, listing_page, clock, run, crawled_urls, mainVars, fetchVars,
                   file0, outcomes, listed, prev, last_saved, loads, report>>

\* save_articles_to_json: open(data_file, 'w') truncates the file, then
\* json.dump raises after writing cut tokens
SaveWriteFails(cut) ==
    /\ pc = "save"
    /\ ShouldSave(new_articles)
    /\ writes' = writes + 1
    /\ articles' = articles \o new_articles
    /\ cut \in Cuts(Len(json_dump(articles')))
    /\ file' = SubSeq(json_dump(articles'), 1, cut)
    /\ file_exists' = TRUE
    /\ save_status' = "write_failed"
    /\ pc' = "summary"
    /\ UNCHANGED <<listing_page, clock, run, crawled_urls, mainVars, fetchVars, file0,
                   outcomes, listed, prev, last_saved, loads, report>>

\* main: the statistics are printed
Summary ==
    /\ pc = "summary"
    /\ report' = [printed |-> TRUE,
                  existing |-> Len(articles) - Len(new_articles),
                  new |-> Len(new_articles),
                  total |-> Len(articles),
                  failed |-> Len(failed_urls)]
    /\ pc' = "done"
    /\ UNCHANGED <<storeVars, listing_page, clock, run, crawlerVars, mainVars, fetchVars,
                   file0, outcomes, listed, save_status, prev, last_saved, loads, writes>>

\* the script is started again: the process state is gone, the file stays
NewProcess ==
    /\ pc = "done"
    /\ run < MaxRuns
    /\ run' = run + 1
    /\ pc' = "init"
    /\ crawled_urls' = {}
    /\ articles' = <<>>
    /\ new_articles' = <<>>
    /\ failed_urls' = <<>>
    /\ cat_idx' = 1
    /\ article_urls' = <<>>
    /\ link_idx' = 1
    /\ paused' = "none"
    /\ outcomes' = NoOutcomes
    /\ listed' = "none"
    /\ save_status' = "none"
    /\ loads' = 0
    /\ writes' = 0
    /\ report' = NoReport
    /\ UNCHANGED <<storeVars, listing_page, clock, fetchVars, file0, last_saved>>

Restart == NewProcess /\ prev' = prev

\* the same, keeping the results of the finished run for comparison
RestartRecording ==
    /\ NewProcess
    /\ prev' = [outcomes |-> outcomes, listed |-> listed, save_status |-> save_status]

\* session.get(url, headers=...) returns or raises: the request is answered
Answered == \E status \in Responses : GetPageStep(status)

\* the steps the program takes by itself
ProgramStep ==
    \/ Construct
    \/ BeginCategory
    \/ FinishList
    \/ SkipCrawled
    \/ BeginArticle
    \/ FinishArticle
    \/ EndLinks
    \/ EndCategories
    \/ NoSave
    \/ SaveOk
    \/ SaveOpenFails
    \/ \E cut \in 0..(5 * (LoadLimit + MaxLinks * MaxRuns) + 1) : SaveWriteFails(cut)
    \/ Summary

RunStep == ProgramStep \/ Answered \/ ArticleRaises

Next == RunStep \/ Restart

Spec == Init /\ [][Next]_vars

\* The runs of a program that never stops by itself: every step of main and
\* of the crawler is eventually taken.  session.get is called without a
\* timeout, so nothing in the program makes a request end: its answer is
\* left to the site.
SpecLive == Init /\ [][Next]_vars /\ WF_vars(ProgramStep)

\* the same runs on a site that answers every request
SpecAnswered == SpecLive /\ WF_vars(Answered)

NextRecording == RunStep \/ RestartRecording

\* the runs with the results of each finished run kept in prev
SpecRecording == Init /\ [][NextRecording]_vars

\* The runs started at clock readings on and around the bounds of the
\* recency window of the pages: u6 is dated PageTime, u2 seven days before
\* it, u8 four days after it.
PageTime == convert_date_to_timestamp(Date3DaysAgo)
ClockSamples ==
    {PageTime - 1, PageTime, Now,
     PageTime + RecencyDays * DaySeconds, PageTime + RecencyDays * DaySeconds + 1}
DatedUrls == {u2, u6, u8}

InitRecency ==
    /\ file_exists = FALSE /\ file = <<>>
    /\ listing_page \in SeqsUpTo({[link |-> TRUE, href |-> u] : u \in DatedUrls}, MaxLinks)
    /\ clock \in ClockSamples
    /\ pc = "init"
    /\ run = 1
    /\ crawled_urls = {}
    /\ articles = <<>>
    /\ new_articles = <<>>
    /\ failed_urls = <<>>
    /\ cat_idx = 1
    /\ article_urls = <<>>
    /\ link_idx = 1
    /\ retry_count = 0
    /\ reqs = 0
    /\ last_status = NoStatus
    /\ waits = <<>>
    /\ result = "pending"
    /\ jittered = FALSE
    /\ paused = "none"
    /\ file0 = NoFile0
    /\ outcomes = NoOutcomes
    /\ listed = "none"
    /\ save_status = "none"
    /\ prev = NoRun
    /\ last_saved = NotSaved
    /\ loads = 0
    /\ writes = 0
    /\ report = NoReport

SpecRecency == InitRecency /\ [][Next]_vars

\* ------------------------------------------------------------- properties
RecordsOf(exists, toks) ==
    LET parsed == IF exists THEN json_load(toks) ELSE ParseFail
    IN  IF parsed.ok THEN parsed.val ELSE <<>>

Readable(exists, toks) == exists /\ json_load(toks).ok

\* the records of the store file now, and when the run loaded it
FileRecords == RecordsOf(file_exists, file)
Loaded0 == RecordsOf(file0.exists, file0.toks)
Readable0 == Readable(file0.exists, file0.toks)

DistinctUrls(rs) == \A i, j \in 1..Len(rs) : i # j => rs[i]["url"] # rs[j]["url"]
Distinct(records) == \A rs \in {records} : DistinctUrls(rs)

BeforeFirstFetch == pc = "for_category" /\ cat_idx = 1
AfterLoops == pc \in {"save", "summary", "done"}
InGetPage == pc \in {"get_list", "get_article"}

\* C1: after a run that accumulated new records and saved them, the store
\* file holds exactly the records it held at startup followed by the new
\* records of the run.
C1_AppendOnly ==
    (pc = "done" /\ save_status = "ok" /\ Readable0)
        => FileRecords = Loaded0 \o new_articles

\* C2: once the crawler is constructed on a readable store file, and before
\* the first get_page call, is_crawled holds for the URL of every record of
\* the file.
C2_SeenAfterLoad ==
    (BeforeFirstFetch /\ Readable0)
        => \A i \in 1..Len(Loaded0) : is_crawled(Loaded0[i]["url"], crawled_urls)

C2_Witness == BeforeFirstFetch /\ Readable0 /\ Len(Loaded0) > LoadLimit

\* C3: no step of any run turns a store file whose records have pairwise
\* distinct URLs into one with a repeated URL.
C3_UrlsStayUnique ==
    [][\/ (file' = file /\ file_exists' = file_exists)
       \/ (Distinct(RecordsOf(file_exists, file))
               => Distinct(RecordsOf(file_exists', file')))]_vars

C3_Witness ==
    /\ pc = "done"
    /\ save_status = "ok"
    /\ Distinct(Loaded0)
    /\ Len(article_urls) >= 2
    /\ article_urls[1] = article_urls[2]
    /\ article_urls[1] \in Urls(new_articles)

\* C4: a save that fails leaves the store file as it was before the save.
C4_FailedSaveKeepsFile ==
    [][(save_status = "none" /\ save_status' \in {"open_failed", "write_failed"})
           => (file' = file /\ file_exists' = file_exists)]_vars

\* C5: every record accumulated as new has a non-empty title, a non-empty
\* content and a valid publish timestamp.
C5_NewRecordsComplete ==
    \A i \in 1..Len(new_articles) :
        /\ new_articles[i].title # <<>>
        /\ new_articles[i].content # <<>>
        /\ new_articles[i].publish_date > 0

\* the attempt in progress has failed: no page, or no record parsed from it
AttemptFails ==
    \/ result = "None"
    \/ parse_article(Web(article_urls[link_idx]), article_urls[link_idx]) = None

C6_Step ==
    (pc = "get_article" /\ pc' # "get_article" /\ AttemptFails)
        => /\ failed_urls' = Append(failed_urls, article_urls[link_idx])
           /\ link_idx' = link_idx + 1
           /\ pc' = "for_url"
           /\ new_articles' = new_articles

C6_AllHandled ==
    AfterLoops =>
        /\ \A j \in 1..Len(article_urls) :
               article_urls[j] \in crawled_urls \cup Range(failed_urls)
        /\ \A j \in 1..Len(article_urls) :
               LET url == article_urls[j]
                   rec == parse_article(Web(url), url)
               IN  (/\ url \in crawled_urls \ Urls(Loaded0)
                    /\ \A tick \in Ticks :
                           is_within_days(rec.publish_date, RecencyDays,
                                          clock, clock + tick))
                       => filtered_article(rec) \in Range(new_articles)
        /\ save_status = "ok" => Range(new_articles) \subseteq Range(FileRecords)

\* C6: a failed article is appended to the failed list and the loop moves to
\* the next link; when the loops end every link of the listing is seen or
\* failed, every link parsed in the run and recent is among the new records,
\* and a successful save has written them.
C6_FailureIsolation == []C6_AllHandled /\ [][C6_Step]_vars

C6_Witness ==
    /\ pc = "done"
    /\ save_status = "ok"
    /\ \E i, j \in 1..Len(article_urls) :
           /\ i < j
           /\ article_urls[i] \in Range(failed_urls)
           /\ article_urls[j] \notin Range(failed_urls)
           /\ article_urls[j] \in Urls(new_articles)
           /\ article_urls[j] \in Urls(FileRecords)

C7_Calls ==
    (InGetPage /\ result = "pending") =>
        /\ reqs <= 3
        /\ retry_count = reqs
        /\ Len(waits) = reqs
        /\ \A N \in 1..Len(waits) : waits[N] = N * 5
        /\ reqs > 0 => last_status = 429

\* a step of get_page that sends a request and goes on to another one
C7_Retries ==
    (InGetPage /\ result = "pending" /\ result' = "pending" /\ reqs' # reqs)
        => /\ last_status' = 429
           /\ reqs' = reqs + 1
           /\ reqs' <= 3
           /\ waits' = Append(waits, reqs' * 5)

\* a step of get_page that sends a request and returns: reqs + 1 requests
\* have then been sent by the call
C7_Returns ==
    (InGetPage /\ result = "pending" /\ result' # "pending")
        => /\ reqs + 1 <= 4
           /\ result' = "text" <=> last_status' = 200
           /\ result' = "None" <=> last_status' # 200
           /\ last_status' = 429 => (reqs + 1 = 4 /\ waits = <<5, 10, 15>>)
           /\ reqs' = 0

\* once returned, the call sends nothing more
C7_NoRequestAfterReturn ==
    (InGetPage /\ result # "pending") => (~InGetPage' /\ reqs' = 0)

\* C7: a get_page call sends at most 4 requests; the N-th retry is preceded
\* by a wait of N * 5 seconds; when every response is 429 the call makes 4
\* requests after waits of 5, 10, 15 and returns None; a 200 response ends
\* the call with the page text and no further request.
C7_BoundedRetry ==
    []C7_Calls /\ [][C7_Retries /\ C7_Returns /\ C7_NoRequestAfterReturn]_vars

C7_Witness ==
    /\ pc = "get_article"
    /\ result = "None"
    /\ last_status = 429

StaleUrls == {u \in ArticleUrls : "stale" \in outcomes[u]}
OnlyFailedUrls == {u \in ArticleUrls : outcomes[u] = {"failed"}}
BetweenAttempts == pc \notin {"init"}

SameResults ==
    /\ listed = prev.listed
    /\ \A u \in ArticleUrls :
           (outcomes[u] # {} /\ prev.outcomes[u] # {}) => outcomes[u] = prev.outcomes[u]

\* C9: a second run over the same listing and pages, with the same results,
\* after a run whose save (if any) succeeded, accumulates no new record and
\* leaves the store file as the first run left it.
C9_SecondRunIdempotent ==
    (/\ run > 1
     /\ pc = "done"
     /\ prev.save_status \in {"ok", "skipped"}
     /\ SameResults)
        => /\ new_articles = <<>>
           /\ file = file0.toks
           /\ file_exists = file0.exists

\* C10: loading the file written by a successful save returns the list of
\* records that was saved.
C10_RoundTrip ==
    [][(pc = "init" /\ pc' # "init" /\ last_saved.valid)
           => articles' = last_saved.records]_vars

\* the record parse_article returns for the link being attempted
Parsed == parse_article(Web(article_urls[link_idx]), article_urls[link_idx])
InWindow(publish_timestamp, now) ==
    now - 7 * DaySeconds <= publish_timestamp /\ publish_timestamp <= now

\* when the clock does not advance between its two readings the filter is
\* exactly the closed window
C11_Function ==
    (pc = "get_article" /\ result = "text" /\ Parsed # None) =>
        /\ is_within_days(Parsed.publish_date, RecencyDays, clock, clock)
               <=> InWindow(Parsed.publish_date, clock)
        /\ Classify(Parsed, clock, clock) = "new"
               <=> InWindow(Parsed.publish_date, clock)
        /\ Parsed.publish_date = clock - 3 * DaySeconds
               => Classify(Parsed, clock, clock) = "new"
        /\ Parsed.publish_date = clock - 10 * DaySeconds
               => Classify(Parsed, clock, clock) = "stale"
        /\ Parsed.publish_date > clock => Classify(Parsed, clock, clock) = "stale"

\* the step of main that filters a parsed record: for a reading now of the
\* clock taken during the check, the record is appended to the new records
\* exactly when it is in the window of now; otherwise neither the new
\* records nor the failed list change
C11_Step ==
    (/\ pc = "get_article" /\ pc' # "get_article"
     /\ result = "text" /\ Parsed # None
     /\ article_urls[link_idx] \in crawled_urls') =>
        \E now \in {clock + tick : tick \in Ticks} :
            IF InWindow(Parsed.publish_date, now)
            THEN /\ new_articles' = Append(new_articles, filtered_article(Parsed))
                 /\ failed_urls' = failed_urls
            ELSE /\ new_articles' = new_articles
                 /\ failed_urls' = failed_urls

C11_Kept ==
    /\ \A i \in 1..Len(new_articles) : InWindow(new_articles[i].publish_date, clock)
    /\ StaleUrls \cap Urls(new_articles) = {}
    /\ (pc = "done" /\ save_status = "ok") => StaleUrls \cap Urls(FileRecords) = {}

\* C11: a parsed record is accumulated as new if and only if
\* now - 7 days <= publish_timestamp <= now, both bounds included, now being
\* the clock during the check; a record of 3 days ago passes, one of 10 days
\* ago or of the future is discarded; a discarded record is neither saved nor
\* added to the failed list.
C11_RecencyFilter == []C11_Function /\ []C11_Kept /\ [][C11_Step]_vars

\* both bounds met in one run: a new record published at the clock reading
\* and one published exactly seven days before it
C11_Witness ==
    /\ pc = "done"
    /\ \E i, j \in 1..Len(new_articles) :
           /\ new_articles[i].publish_date = clock
           /\ new_articles[j].publish_date = clock - RecencyDays * DaySeconds

\* a request answered by an error other than 429, or not answered at all
C12_Fails ==
    (InGetPage /\ result = "pending" /\ last_status' \notin {200, 429}) =>
        /\ result' = "None"
        /\ retry_count' = retry_count
        /\ waits' # Append(waits, wait_time(retry_count))
        /\ reqs' # reqs + 1
        /\ waits' = <<>> /\ reqs' = 0

\* the call that has returned None after such an error sends nothing more
C12_Stops ==
    (InGetPage /\ result = "None" /\ last_status \notin {200, 429}) =>
        /\ ~InGetPage'
        /\ last_status' = NoStatus

\* C12: in get_page an HTTP error other than 429, or a network failure,
\* makes the call return None after that one request, with no wait and no
\* further request, whatever the retry count.
C12_NoRetryOnOtherErrors == [][C12_Fails /\ C12_Stops]_vars

\* a call that was retried twice after 429 and then gave up on a 500
C12_Witness ==
    /\ pc = "get_article"
    /\ result = "None"
    /\ last_status = 500
    /\ retry_count = 2

\* C13: every run eventually reaches the final summary.
C13_RunReachesSummary == (pc = "init") ~> (pc = "done")

AllProcessed == cat_idx > Len(category_urls) /\ link_idx > Len(article_urls)

C14_Lifecycle ==
    /\ loads <= 1
    /\ writes <= 1
    /\ (InGetPage \/ pc \in {"for_category", "for_url"} \/ AfterLoops) => loads = 1
    /\ pc = "init" => (loads = 0 /\ writes = 0)
    /\ writes = 1 => (pc \in {"summary", "done"} /\ AllProcessed /\ new_articles # <<>>)
    /\ (pc \in {"summary", "done"} /\ new_articles = <<>>) =>
           (writes = 0 /\ file = file0.toks /\ file_exists = file0.exists)

C14_Step ==
    /\ (loads' # loads /\ pc # "done") =>
           (pc = "init" /\ file0' = [exists |-> file_exists, toks |-> file])
    /\ (file' # file \/ file_exists' # file_exists) =>
           (pc = "save" /\ AllProcessed /\ writes = 0 /\ writes' = 1)
    /\ Answered => (loads = 1 /\ writes = 0)

\* C14: in one run the store file is read once, before any fetch; it is
\* written at most once and only when every listing and link has been
\* processed; a run that accumulated no new record does not write the file
\* and leaves its content as it was.
C14_StoreLifecycle == []C14_Lifecycle /\ [][C14_Step]_vars

\* a finished run with links processed and nothing new: the file is
\* untouched
C14_Witness ==
    /\ pc = "done"
    /\ file0.exists
    /\ Len(article_urls) > 0
    /\ new_articles = <<>>
    /\ failed_urls # <<>>
    /\ writes = 0
    /\ loads = 1

\* an article page is being requested, or has just been
C15_Requested ==
    pc = "get_article" =>
        /\ article_urls[link_idx] \notin Urls(new_articles)
        /\ \A rs \in {Loaded0} : article_urls[link_idx] \notin Urls(rs)

\* a link that is in the store as loaded, or already among the new records,
\* is passed over without a request
C15_Skipped ==
    (/\ pc = "for_url"
     /\ link_idx <= Len(article_urls)
     /\ \/ article_urls[link_idx] \in Urls(new_articles)
        \/ \E rs \in {Loaded0} : article_urls[link_idx] \in Urls(rs))
        => (pc' = "for_url" /\ link_idx' = link_idx + 1 /\ UNCHANGED fetchVars)

\* C15: no article page is requested for a URL whose record was in the
\* store file at load, nor for a URL already accumulated as new in the run,
\* also when the link appears again in a listing.
C15_NoReprocessing == []C15_Requested /\ [][C15_Skipped]_vars

\* a listing that names the same article twice: accumulated at the first
\* link, passed over at the second
C15_Witness ==
    /\ pc = "for_url"
    /\ link_idx = 3
    /\ article_urls[1] = article_urls[2]
    /\ Len(new_articles) = 1
    /\ new_articles[1].url = article_urls[2]
    /\ failed_urls = <<>>

\* a request is sent right after the jitter sleep of get_page
C16_Jitter == Answered => jittered'

\* an article attempt begins after another one of the run: main has slept
\* since that one ended
C16_Pause ==
    (pc = "for_url" /\ pc' = "get_article" /\ paused # "none") => paused = "slept"

\* C16: every request, first or repeated, comes right after the jitter sleep
\* of get_page, and between two consecutive article attempts of a run main
\* sleeps, whether the first was new, stale, failed without a record or
\* failed by an exception.
C16_Pacing == [][C16_Jitter /\ C16_Pause]_vars

\* the step that ends an article attempt
AttemptEnds == pc = "get_article" /\ pc' = "for_url"

\* failed_urls counts the failed attempts: an attempt that adds no record
\* and is not discarded as stale adds one entry, no other step adds any
C17_FailedCounted ==
    /\ (AttemptEnds /\ new_articles' = new_articles
            /\ article_urls[link_idx] \notin crawled_urls')
           => Len(failed_urls') = Len(failed_urls) + 1
    /\ (AttemptEnds /\ (new_articles' # new_articles
                            \/ article_urls[link_idx] \in crawled_urls'))
           => failed_urls' = failed_urls
    /\ (~AttemptEnds /\ pc # "done" /\ pc # "init") => failed_urls' = failed_urls

C17_Report ==
    pc = "done" =>
        /\ report.printed
        /\ \A rs \in {Loaded0} : report.existing = Len(rs)
        /\ report.new = Len(new_articles)
        /\ report.total = report.existing + report.new
        /\ save_status = "ok" => \A rs \in {FileRecords} : report.total = Len(rs)
        /\ report.failed = Len(failed_urls)

\* C17: at the end of every run the printed pre-existing count is the number
\* of records of the store file at load, the new count is the number of
\* records accumulated, the total is their sum and the number of records of
\* the file after a successful save, and the failed count is the number of
\* failed article attempts.
C17_SummaryCounts == []C17_Report /\ [][C17_FailedCounted]_vars

\* C18: no step of a run removes a URL from crawled_urls: the set after the
\* step includes the set before it.
C18_SeenOnlyGrows == [][pc # "done" => crawled_urls \subseteq crawled_urls']_vars

\* a run that loaded a store, then marked further URLs, with a failed
\* attempt among its steps, and saved
C18_Witness ==
    /\ pc = "done"
    /\ save_status = "ok"
    /\ failed_urls # <<>>
    /\ \A rs \in {Loaded0} :
           /\ rs # <<>>
           /\ Urls(rs) \subseteq crawled_urls
           /\ Urls(rs) # crawled_urls

\* how the step that ends an attempt on url leaves the lists
EndsNew(url) ==
    /\ Len(new_articles') = Len(new_articles) + 1
    /\ new_articles'[Len(new_articles')].url = url
    /\ SubSeq(new_articles', 1, Len(new_articles)) = new_articles
    /\ failed_urls' = failed_urls
EndsStale(url) ==
    /\ new_articles' = new_articles
    /\ failed_urls' = failed_urls
    /\ url \in crawled_urls'
EndsFailed(url) ==
    /\ new_articles' = new_articles
    /\ failed_urls' = Append(failed_urls, url)
    /\ url \notin crawled_urls'

\* every attempt ends in exactly one of the three ways
C19_OneOutcome ==
    AttemptEnds =>
        \A url \in {article_urls[link_idx]} :
            /\ EndsNew(url) \/ EndsStale(url) \/ EndsFailed(url)
            /\ ~(EndsNew(url) /\ EndsStale(url))
            /\ ~(EndsNew(url) /\ EndsFailed(url))
            /\ ~(EndsStale(url) /\ EndsFailed(url))

NewNotLoaded == \A rs \in {Loaded0} : Urls(new_articles) \cap Urls(rs) = {}

\* the links of the listing handled so far that name url
Handled(url) == {j \in 1..(link_idx - 1) : j <= Len(article_urls) /\ article_urls[j] = url}

\* C19 as stated: every attempt ends in exactly one of new, stale, failed;
\* no URL is both in the new records and in the failed list; no URL of a
\* new record was in the store file at load.
C19_Exclusive ==
    /\ [][C19_OneOutcome]_vars
    /\ [](Urls(new_articles) \cap Range(failed_urls) = {})
    /\ []NewNotLoaded

\* a URL is both failed and new only when the listing names it more than
\* once; such a URL failed before it was accumulated
C19_FailedThenNew ==
    /\ \A url \in Urls(new_articles) \cap Range(failed_urls) :
           Cardinality(Handled(url)) >= 2
    /\ \A url \in Urls(new_articles) : "new" \in outcomes[url]

\* a URL that is among the new records gets no further entry in the
\* failed list; the new records never name a URL twice
C19_NoFailureAfterNew ==
    /\ failed_urls' # failed_urls =>
           \A i \in (Len(failed_urls) + 1)..Len(failed_urls') :
               failed_urls'[i] \notin Urls(new_articles)
    /\ AttemptEnds => article_urls[link_idx] \notin Urls(new_articles)

\* C19, amended: every attempt ends in exactly one of new, stale, failed; no
\* URL of a new record was in the store file at load; a URL accumulated as
\* new is not attempted again, so it never fails afterwards; a URL is in
\* both the failed list and the new records only when the listing names it
\* more than once and an attempt on it failed before a later one succeeded.
C19_ExclusivePerAttempt ==
    /\ [][C19_OneOutcome /\ C19_NoFailureAfterNew]_vars
    /\ []C19_FailedThenNew
    /\ []NewNotLoaded

\* a listing naming one article twice: the first attempt failed, the second
\* was accumulated as new
C19_Witness ==
    /\ pc = "done"
    /\ Len(article_urls) = 2
    /\ article_urls[1] = article_urls[2]
    /\ failed_urls = <<article_urls[1]>>
    /\ Len(new_articles) = 1
    /\ new_articles[1].url = article_urls[1]

====
